---- MODULE Spec2Model ----
(***************************************************************************)
(* Model of ndarray-linalg's online QR driver (src/krylov/mod.rs) and of   *)
(* the deflating truncated eigen-iterator (src/lobpcg/eig.rs).             *)
(*                                                                         *)
(* Numbers.  Vector entries, coefficients and norms are non-negative       *)
(* integers; the floating-point value NaN is the distinguished value NaN.  *)
(* Input vectors are restricted to those whose residual norm against the   *)
(* current basis is an integer, so that Gram-Schmidt is computed exactly.  *)
(***************************************************************************)
EXTENDS Integers, Sequences, FiniteSets, TLC

\* ---------------------------------------------------------------- bounds
Dim       == 2   \* dim() of the orthogonalizer
MaxVal    == 2   \* largest entry of an input vector
MaxStream == 3   \* longest input stream
MaxRtol   == 2   \* largest relative tolerance
MaxN      == 3   \* largest row count of the eigenproblem's operator
MaxTok    == 2   \* distinct eigenvalues / eigenvector columns told apart

VARIABLES
    \* ---- qr(iter, ortho, rtol, strategy)
    strategy,   \* "Terminate" | "Skip" | "Full"
    rtol,       \* the tolerance handed to every append
    q,          \* ortho's basis: sequence of columns, len() = Len(q)
    streamLen,  \* number of vectors the iterator will produce
    pos,        \* number of vectors drawn from the iterator so far
    coefs,      \* the Vec of recorded coefficient vectors
    pc,         \* position inside qr
    ret,        \* what qr returned: [q, r] once pc = "done"
    calls,      \* history: one record per append call, in call order
    \* ---- TruncatedEig / TruncatedEigIterator
    problem,     \* the operator matrix, by its row count
    order,       \* "Largest" | "Smallest"
    constraints, \* Option<Array2>: [some, cols], cols the sequence of columns
    precision,   \* in units of 1e-6
    maxiter,
    step_size,   \* the iterator's batch size (0 before into_iter)
    epc,         \* "config": a TruncatedEig being built; "iter": an iterator
    given,       \* history: the constraints held when into_iter was called
    res,         \* history: the EigResult of the last eigen-step
    item,        \* history: what the last next() returned
    onceCalls,   \* history: calls of once() made by the last next()
    yielded,     \* history: number of items yielded so far
    found,       \* history: the eigenvector columns yielded so far, in order
    args,        \* history: what the last once() handed to the eigen-step
    last         \* history: the last operation on the TruncatedEig and its argument

qrvars == <<strategy, rtol, q, streamLen, pos, coefs, pc, ret, calls>>

eigvars == <<problem, order, constraints, precision, maxiter, step_size, epc,
             given, res, item, onceCalls, yielded, found, args, last>>

\* ------------------------------------------------------- scalar arithmetic
NaN == -1

Mul(x, y) == IF x = NaN \/ y = NaN THEN NaN ELSE x * y
Add(x, y) == IF x = NaN \/ y = NaN THEN NaN ELSE x + y
Sub(x, y) == IF x = NaN \/ y = NaN THEN NaN ELSE x - y
\* x / y; the only division by zero the model meets is 0 / 0
Div(x, y) == IF x = NaN \/ y = NaN \/ y = 0 THEN NaN ELSE x \div y
\* x < y on floats: false as soon as one side is NaN
Lt(x, y)  == x # NaN /\ y # NaN /\ x < y

RECURSIVE DotFrom(_, _, _)
DotFrom(u, v, k) ==
    IF k > Dim THEN 0 ELSE Add(Mul(u[k], v[k]), DotFrom(u, v, k + 1))

Dot(u, v) == DotFrom(u, v, 1)

ISqrt(s) == CHOOSE n \in 0..s : n * n <= s /\ s < (n + 1) * (n + 1)

Norm(v) == LET s == Dot(v, v) IN IF s = NaN THEN NaN ELSE ISqrt(s)

\* ------------------------------------------------------------ input vectors
AxisVec(k, c) == [i \in 1..Dim |-> IF i = k THEN c ELSE 0]
PairVec(i, j) == [k \in 1..Dim |-> IF k = i \/ k = j THEN 1 ELSE 0]

Inputs ==
    {AxisVec(k, c) : k \in 1..Dim, c \in 0..MaxVal}
        \cup {PairVec(i, j) : i \in 1..Dim, j \in 1..Dim}

\* ------------------------------------------------- Orthogonalizer (MGS)
\* orthogonalize: project the basis columns out of a one after the other;
\* returns the coefficients against the current basis and the residual.
RECURSIVE OrthoFrom(_, _, _, _)
OrthoFrom(basis, a, i, coef) ==
    IF i > Len(basis) THEN [coef |-> coef, resid |-> a]
    ELSE LET c == Dot(basis[i], a)
             b == [k \in 1..Dim |-> Sub(a[k], Mul(c, basis[i][k]))]
         IN OrthoFrom(basis, b, i + 1, Append(coef, c))

Orthogonalize(basis, a) == OrthoFrom(basis, a, 1, <<>>)

\* append: coefficients of size len() + 1 whose last element is the residual
\* norm; rejected (Err) when the norm is below rtol, else the normalized
\* residual becomes a new column (Ok).
OrthoAppend(basis, a, tol) ==
    LET o    == Orthogonalize(basis, a)
        nrm  == Norm(o.resid)
        coef == Append(o.coef, nrm)
    IN IF Lt(nrm, tol)
       THEN [ok |-> FALSE, coef |-> coef, basis |-> basis]
       ELSE [ok |-> TRUE, coef |-> coef,
             basis |-> Append(basis, [k \in 1..Dim |-> Div(o.resid[k], nrm)])]

\* is_full(): self.len() == self.dim()
IsFull(basis) == Len(basis) = Dim

\* is_empty(): self.len() == 0
IsEmpty(basis) == Len(basis) = 0

\* the inputs the model computes exactly: the residual norm is an integer
ResidSq(basis, a) ==
    LET resid == Orthogonalize(basis, a).resid IN Dot(resid, resid)

Exact(basis, a) ==
    LET s == ResidSq(basis, a)
    IN IF s = NaN THEN TRUE ELSE ISqrt(s) * ISqrt(s) = s

\* ------------------------------------------------------------ R assembly
\* Array2::zeros((n, m)), entries addressed (row, column), 1-based here
Zeros(n, m) == [rows |-> n, cols |-> m,
                e |-> [p \in (1..n) \X (1..m) |-> 0]]

\* mutant of FillRows: the guard is off by one, i + 1 < coefs[j].len()
RECURSIVE FillRowsShort(_, _, _, _)
FillRowsShort(r, cfs, j, i) ==
    IF i > r.rows THEN r
    ELSE FillRowsShort(IF i + 1 <= Len(cfs[j])
                       THEN [r EXCEPT !.e[<<i, j>>] = cfs[j][i]]
                       ELSE r,
                       cfs, j, i + 1)

\* for i in 0..n { if i < coefs[j].len() { r[(i, j)] = coefs[j][i] } }
RECURSIVE FillRows(_, _, _, _)
FillRows(r, cfs, j, i) ==
    IF i > r.rows THEN r
    ELSE FillRows(IF i <= Len(cfs[j])
                  THEN [r EXCEPT !.e[<<i, j>>] = cfs[j][i]]
                  ELSE r,
                  cfs, j, i + 1)

\* for j in 0..m { ... }
RECURSIVE FillCols(_, _, _)
FillCols(r, cfs, j) ==
    IF j > r.cols THEN r
    ELSE FillCols(FillRows(r, cfs, j, 1), cfs, j + 1)

AssembleR(n, cfs) == FillCols(Zeros(n, Len(cfs)), cfs, 1)

\* --------------------------------------------------------------- qr
NoRet == [q |-> <<>>, r |-> Zeros(0, 0)]

InitQR ==
    /\ strategy \in {"Terminate", "Skip", "Full"}
    /\ rtol \in 0..MaxRtol
    /\ q \in {<<>>, <<AxisVec(1, 1)>>}
    /\ streamLen \in 0..MaxStream
    /\ pos = 0
    /\ coefs = <<>>
    /\ pc = "start"
    /\ ret = NoRet
    /\ calls = <<>>

\* mutant of Panics: the assertion is missing
PanicsNever(len) == FALSE

\* assert_eq!(ortho.len(), 0) fails
Panics(len) == len # 0

\* mutant of Recorded: Full drops a rejected vector's coefficients like Skip
RecordedOkOnly(strat, ok) == ok

\* mutant of Recorded: Skip keeps a rejected vector's coefficients like Full
RecordedAlways(strat, ok) == ok \/ strat # "Terminate"

\* coefs.push(coef): on Ok, and on Err under Strategy::Full
Recorded(strat, ok) == ok \/ strat = "Full"

\* mutant of Continues: Terminate does not break
ContinuesAlways(strat, ok) == TRUE

\* mutant of Continues: Skip breaks like Terminate
ContinuesSkipBreaks(strat, ok) == ok \/ strat = "Full"

\* the loop goes on to the next vector: always, but for Err under Terminate
Continues(strat, ok) == ok \/ strat # "Terminate"

QrAssert ==
    /\ pc = "start"
    /\ pc' = IF Panics(Len(q)) THEN "panicked" ELSE "loop"
    /\ UNCHANGED <<strategy, rtol, q, streamLen, pos, coefs, ret, calls>>
    /\ UNCHANGED eigvars

\* one turn of `for a in iter`: the iterator yields a, append, dispatch
QrStep ==
    /\ pc = "loop"
    /\ pos < streamLen
    /\ \E a \in Inputs :
        /\ Exact(q, a)
        /\ \E out \in {OrthoAppend(q, a, rtol)} :
            /\ q' = out.basis
            /\ pos' = pos + 1
            /\ calls' = Append(calls, [a |-> a, ok |-> out.ok, coef |-> out.coef,
                                       idx |-> pos + 1, len |-> Len(out.basis)])
            /\ coefs' = IF Recorded(strategy, out.ok)
                        THEN Append(coefs, out.coef)
                        ELSE coefs
            /\ pc' = IF Continues(strategy, out.ok) THEN "loop" ELSE "assemble"
    /\ UNCHANGED <<strategy, rtol, streamLen, ret>>
    /\ UNCHANGED eigvars

\* the loop is over (the iterator is exhausted, or Terminate broke out of
\* it): build R from the recorded coefficients, return (ortho.get_q(), r)
QrAssemble ==
    /\ pc = "assemble" \/ (pc = "loop" /\ pos = streamLen)
    /\ ret' = [q |-> q, r |-> AssembleR(Len(q), coefs)]
    /\ pc' = "done"
    /\ UNCHANGED <<strategy, rtol, q, streamLen, pos, coefs, calls>>
    /\ UNCHANGED eigvars

NextQR == QrAssert \/ QrStep \/ QrAssemble

\* --------------------------------------------------------- TruncatedEig
DefaultPrecision == 10      \* 1e-5, in units of 1e-6
Threshold        == 100000  \* 0.1, in units of 1e-6

\* x > y on floats: false as soon as one side is NaN
Gt(x, y) == x # NaN /\ y # NaN /\ x > y

None == [some |-> FALSE, cols |-> <<>>]
Some(cols) == [some |-> TRUE, cols |-> cols]

NoItem == [some |-> FALSE, vals |-> <<>>, vecs |-> <<>>]
SomeItem(vals, vecs) == [some |-> TRUE, vals |-> vals, vecs |-> vecs]

NoRes == [tag |-> "None", vals |-> <<>>, vecs |-> <<>>, norms |-> <<>>]

\* TruncatedEig::new(problem, order)
\* mutant of EigNew: the iteration cap is the row count
EigNewCapRows(n, ord) ==
    /\ problem = n
    /\ order = ord
    /\ precision = DefaultPrecision
    /\ maxiter = n
    /\ constraints = None

\* TruncatedEig::new(problem, order)
EigNew(n, ord) ==
    /\ problem = n
    /\ order = ord
    /\ precision = DefaultPrecision
    /\ maxiter = n * 2
    /\ constraints = None

\* sequences of length n over S
SeqsOf(S, n) == [1..n -> S]

\* the eigenvalues the eigen-step may report
EigVals == {1, 2}

NormVals == {0, Threshold, Threshold + 1, NaN}

\* lobpcg(op, x, None, constraints, precision, maxiter, order) for an initial
\* block x with num columns: every outcome some random x can lead to.  The
\* values, vectors and norms of a result are co-indexed, one per column of
\* x; no eigenpair is left once the constraints exhaust the dimension.
Lobpcg(n, num, cons, prec, iters, ord) ==
    LET NoResult == [tag |-> "NoResult", vals |-> <<>>, vecs |-> <<>>,
                     norms |-> <<>>]
    IN IF Len(cons.cols) + num > n THEN {NoResult}
       ELSE {NoResult} \cup
            [tag : {"Ok", "Err"}, vals : SeqsOf(EigVals, num),
             vecs : SeqsOf(1..MaxTok, num), norms : SeqsOf(NormVals, num)]

\* mutant of OnceArgs: the eigen-step is run without the constraints
OnceArgsNoConstraints(num) ==
    [n |-> problem, num |-> num, cons |-> None, prec |-> precision,
     iters |-> maxiter, ord |-> order]

\* what once(num) hands to lobpcg: the operator, a random block with num
\* columns, self.constraints.clone(), self.precision, self.maxiter, self.order
OnceArgs(num) ==
    [n |-> problem, num |-> num, cons |-> constraints, prec |-> precision,
     iters |-> maxiter, ord |-> order]

NoArgs == [n |-> 0, num |-> 0, cons |-> None, prec |-> 0, iters |-> 0,
           ord |-> ""]

\* TruncatedEig::once(num)
Once(num) ==
    Lobpcg(OnceArgs(num).n, OnceArgs(num).num, OnceArgs(num).cons,
           OnceArgs(num).prec, OnceArgs(num).iters, OnceArgs(num).ord)

\* nothing has been asked of the TruncatedEig yet
Fresh ==
    /\ step_size = 0
    /\ epc = "config"
    /\ given = None
    /\ res = NoRes
    /\ item = NoItem
    /\ onceCalls = 0
    /\ yielded = 0
    /\ found = <<>>
    /\ args = NoArgs
    /\ last = [op |-> "new", arg |-> problem]

InitEigIdle == EigNew(1, "Largest") /\ Fresh

InitEig ==
    /\ \E n \in 1..MaxN, ord \in {"Largest", "Smallest"} : EigNew(n, ord)
    /\ Fresh

\* the values the model hands to the builders precision and maxiter
Precisions == {1}
Maxiters == {1}

\* TruncatedEig::precision(precision)
EigPrecision ==
    /\ epc = "config"
    /\ \E p \in Precisions :
        /\ precision' = p
        /\ last' = [op |-> "precision", arg |-> p]
    /\ UNCHANGED <<problem, order, constraints, maxiter, step_size, epc, given,
                   res, item, onceCalls, yielded, found, args>>
    /\ UNCHANGED qrvars

\* TruncatedEig::maxiter(maxiter)
EigMaxiter ==
    /\ epc = "config"
    /\ \E m \in Maxiters :
        /\ maxiter' = m
        /\ last' = [op |-> "maxiter", arg |-> m]
    /\ UNCHANGED <<problem, order, constraints, precision, step_size, epc,
                   given, res, item, onceCalls, yielded, found, args>>
    /\ UNCHANGED qrvars

\* TruncatedEig::constraints(constraints)
EigConstraints ==
    /\ epc = "config"
    /\ \E c \in SeqsOf(1..MaxTok, 1) :
        /\ constraints' = Some(c)
        /\ last' = [op |-> "constraints", arg |-> c]
    /\ UNCHANGED <<problem, order, precision, maxiter, step_size, epc, given,
                   res, item, onceCalls, yielded, found, args>>
    /\ UNCHANGED qrvars

\* TruncatedEig::into_iter()
EigIntoIter ==
    /\ epc = "config"
    /\ epc' = "iter"
    /\ step_size' = 1
    /\ given' = constraints
    /\ last' = [op |-> "into_iter", arg |-> 0]
    /\ UNCHANGED <<problem, order, constraints, precision, maxiter, res, item,
                   onceCalls, yielded, found, args>>
    /\ UNCHANGED qrvars

\* mutant of HasNorms: only Ok is inspected, Err ends the sequence
HasNormsOkOnly(r) == r.tag = "Ok"

\* the match arm EigResult::Ok(..) | EigResult::Err(..)
HasNorms(r) == r.tag \in {"Ok", "Err"}

\* mutant of Aborts: r_norm >= 0.1
AbortsAtThreshold(norms) ==
    \E i \in 1..Len(norms) : norms[i] # NaN /\ norms[i] >= Threshold

\* some residual norm of the batch is above the threshold
Aborts(norms) == \E i \in 1..Len(norms) : Gt(norms[i], Threshold)

\* mutant of NewConstraints: the new block replaces the old constraints
NewConstraintsReplace(cons, vecs) == vecs

\* mutant of NewConstraints: the new block is chained before the old columns
NewConstraintsPrepend(cons, vecs) ==
    IF cons.some THEN vecs \o cons.cols ELSE vecs

\* constraints.gencolumns().chain(vecs.gencolumns()) stacked along axis 1,
\* or vecs.clone() without constraints
NewConstraints(cons, vecs) == IF cons.some THEN cons.cols \o vecs ELSE vecs

\* mutant of EigNext: the constraints are extended before the residual norms
\* are inspected
EigNextUpdatesFirst ==
    /\ epc = "iter"
    /\ \E r \in Once(step_size) :
        /\ res' = r
        /\ args' = OnceArgs(step_size)
        /\ onceCalls' = 1
        /\ IF ~HasNorms(r)
           THEN /\ item' = NoItem
                /\ UNCHANGED <<constraints, yielded, found>>
           ELSE /\ constraints' = Some(NewConstraints(constraints, r.vecs))
                /\ IF Aborts(r.norms)
                   THEN /\ item' = NoItem
                        /\ UNCHANGED <<yielded, found>>
                   ELSE /\ item' = SomeItem(r.vals, r.vecs)
                        /\ yielded' = yielded + 1
                        /\ found' = found \o r.vecs
    /\ UNCHANGED <<problem, order, precision, maxiter, step_size, epc, given,
                   last>>
    /\ UNCHANGED qrvars

\* TruncatedEigIterator::next()
EigNext ==
    /\ epc = "iter"
    /\ \E r \in Once(step_size) :
        /\ res' = r
        /\ args' = OnceArgs(step_size)
        /\ onceCalls' = 1
        /\ IF ~HasNorms(r) \/ Aborts(r.norms)
           THEN /\ item' = NoItem
                /\ UNCHANGED <<constraints, yielded, found>>
           ELSE /\ constraints' = Some(NewConstraints(constraints, r.vecs))
                /\ item' = SomeItem(r.vals, r.vecs)
                /\ yielded' = yielded + 1
                /\ found' = found \o r.vecs
    /\ UNCHANGED <<problem, order, precision, maxiter, step_size, epc, given,
                   last>>
    /\ UNCHANGED qrvars

NextEig ==
    EigPrecision \/ EigMaxiter \/ EigConstraints \/ EigIntoIter \/ EigNext

InitQRIdle ==
    /\ strategy = "Terminate"
    /\ rtol = 0
    /\ q = <<>>
    /\ streamLen = 0
    /\ pos = 0
    /\ coefs = <<>>
    /\ pc = "start"
    /\ ret = NoRet
    /\ calls = <<>>

vars == <<qrvars, eigvars>>

\* qr on its own
Init == InitQR /\ InitEigIdle

Spec == Init /\ [][NextQR]_vars

\* the eigen-iterator on its own
InitIter == InitEig /\ InitQRIdle

SpecEig == InitIter /\ [][NextEig]_vars

\* the consumer keeps pulling: into_iter is called and next() is called again
\* and again
SpecEigFair == SpecEig /\ WF_vars(EigIntoIter) /\ WF_vars(EigNext)

\* =================================================================
\* Properties of qr (checked under Spec)
\* =================================================================
IsOk(c) == c.ok
IsRecorded(c) == c.ok \/ strategy = "Full"

\* the append calls that were accepted, and those whose coefficients qr kept
Accepted == SelectSeq(calls, IsOk)
Kept == SelectSeq(calls, IsRecorded)

\* len() right before the i-th append call
LenBefore(i) == IF i = 1 THEN 0 ELSE calls[i - 1].len

Returned == pc = "done"

\* qr got past its assertion
Running == pc \in {"loop", "assemble", "done"}

\* C1: under Strategy::Terminate no append call follows the first rejected
\* vector, the rejected vector records no coefficient column, and Q and R
\* reflect exactly the accepted prefix of the stream.
C1_TerminateStopsAtFirstRejection ==
    (strategy = "Terminate" /\ Running) =>
        /\ \A i \in 1..Len(calls) : ~calls[i].ok => i = Len(calls)
        /\ \A i \in 1..Len(calls) : calls[i].idx = i
        /\ Len(coefs) = Len(Accepted)
        /\ \A j \in 1..Len(coefs) : calls[j].ok /\ coefs[j] = calls[j].coef
        /\ Len(q) = Len(Accepted)
        /\ Returned => /\ Len(ret.q) = Len(Accepted)
                       /\ ret.r.rows = Len(Accepted)
                       /\ ret.r.cols = Len(Accepted)

\* a Terminate run that returned after a rejection, with accepted vectors
\* before the rejected one and unread vectors after it
C1_Witness ==
    /\ strategy = "Terminate"
    /\ Returned
    /\ Len(calls) >= 2
    /\ ~calls[Len(calls)].ok
    /\ pos < streamLen

\* C2: under Strategy::Full R has one column per input vector, accepted or
\* not, column j holding the coefficients of the j-th input vector; a
\* rejected vector adds a column but leaves the basis size unchanged.
C2_FullRecordsEveryVector ==
    (strategy = "Full" /\ Running) =>
        /\ Len(coefs) = Len(calls)
        /\ \A j \in 1..Len(calls) :
            /\ calls[j].idx = j
            /\ coefs[j] = calls[j].coef
            /\ ~calls[j].ok => calls[j].len = LenBefore(j)
        /\ Returned =>
            /\ ret.r.cols = streamLen
            /\ Len(calls) = streamLen
            /\ \A j \in 1..ret.r.cols : \A i \in 1..ret.r.rows :
                i <= Len(calls[j].coef) => ret.r.e[<<i, j>>] = calls[j].coef[i]

\* the duplicate-vector scenario: three vectors, the second rejected, R with
\* three columns and a basis of two
C2_Witness ==
    /\ strategy = "Full"
    /\ Returned
    /\ streamLen = 3
    /\ calls[1].ok /\ ~calls[2].ok /\ calls[3].ok
    /\ ret.r.cols = 3
    /\ Len(ret.q) = 2

\* C3: under Strategy::Skip every vector of the stream is appended exactly
\* once, in arrival order, a rejection never stops consumption, and only
\* accepted vectors contribute: R is square, its size the number of accepted
\* vectors, which is also the number of columns of Q.
C3_SkipConsumesAll ==
    (strategy = "Skip" /\ Running) =>
        /\ \A i \in 1..Len(calls) : calls[i].idx = i
        /\ pc \in {"assemble", "done"} => Len(calls) = streamLen
        /\ Len(coefs) = Len(Accepted)
        /\ \A j \in 1..Len(coefs) : coefs[j] = Accepted[j].coef
        /\ Len(q) = Len(Accepted)
        /\ Returned => /\ ret.r.cols = Len(Accepted)
                       /\ ret.r.rows = Len(Accepted)
                       /\ Len(ret.q) = Len(Accepted)

\* a Skip run that returned, with a rejected vector between accepted ones
C3_Witness ==
    /\ strategy = "Skip"
    /\ Returned
    /\ streamLen = 3
    /\ calls[1].ok /\ ~calls[2].ok /\ calls[3].ok
    /\ ret.r.cols = 2

\* C4: the returned R has len() rows and one column per recorded coefficient
\* vector; R[i][j] is coefficients[j][i] where that exists and zero elsewhere;
\* an empty stream yields an R without columns.
C4_RAssembly ==
    Returned =>
        /\ ret.r.rows = Len(q)
        /\ ret.r.cols = Len(coefs)
        /\ DOMAIN ret.r.e = (1..Len(q)) \X (1..Len(coefs))
        /\ \A j \in 1..Len(coefs) : \A i \in 1..Len(q) :
            ret.r.e[<<i, j>>] = IF i <= Len(coefs[j]) THEN coefs[j][i] ELSE 0
        /\ streamLen = 0 => ret.r.cols = 0

\* an R with a column shorter than the final basis (zero-filled below), a
\* column longer than it (cut off) and a nonzero entry
C4_Witness ==
    /\ Returned
    /\ \E j \in 1..Len(coefs) : Len(coefs[j]) < Len(q)
    /\ \E j \in 1..Len(coefs) : Len(coefs[j]) > Len(q)
    /\ \E j \in 1..Len(coefs) : \E i \in 1..Len(q) : ret.r.e[<<i, j>>] > 0

\* C5: R is upper triangular in the staircase sense: in column j every row
\* at or beyond the basis size reached right after that column's vector was
\* processed is zero.
C5_Staircase ==
    Returned =>
        \A j \in 1..ret.r.cols : \A i \in 1..ret.r.rows :
            i > Kept[j].len => ret.r.e[<<i, j>>] = 0

\* C10: qr aborts on an orthogonalizer that is not empty, before any append
\* and without returning anything; it never aborts on an empty one.
C10_NonEmptyAborts ==
    /\ pc = "panicked" => Len(q) # 0 /\ calls = <<>> /\ ret = NoRet
    /\ (pc \in {"loop", "assemble", "done"} /\ calls = <<>>) => Len(q) = 0
    /\ Len(calls) > 0 => Len(calls[1].coef) = 1

C10_Witness == pc = "panicked" /\ Len(q) = 1 /\ streamLen > 0

\* the basis right after the i-th append call (columns are only ever added)
BasisAfter(i) == SubSeq(q, 1, calls[i].len)
BasisBefore(i) == SubSeq(q, 1, LenBefore(i))

\* C11: after any sequence of append calls, with any rtol >= 0: len() <=
\* dim(), len() never decreases, is_full() exactly when len() = dim(),
\* is_empty() exactly when len() = 0, and no append increases len() once
\* is_full() is true.
C11_BasisBounded ==
    Running =>
        /\ Len(q) <= Dim
        /\ IsFull(q) <=> Len(q) = Dim
        /\ IsEmpty(q) <=> Len(q) = 0
        /\ \A i \in 1..Len(calls) :
            /\ calls[i].len >= LenBefore(i)
            /\ calls[i].len <= Dim
            /\ IsFull(BasisBefore(i)) => calls[i].len = LenBefore(i)

\* sum over i in from..n of w[i] * basis[i][k]
RECURSIVE Combine(_, _, _, _, _)
Combine(basis, w, k, from, n) ==
    IF from > n THEN 0
    ELSE Add(Mul(w[from], basis[from][k]), Combine(basis, w, k, from + 1, n))

\* the vector with coefficients coef against the columns of basis
Expand(basis, coef) ==
    [k \in 1..Dim |-> Combine(basis, coef, k, 1, Len(basis))]

\* column j of the product of the returned Q and R
QRColumn(j) ==
    Expand(ret.q, [i \in 1..ret.r.rows |-> ret.r.e[<<i, j>>]])

\* every accepted append returned its vector's expansion coefficients against
\* the basis that includes the new column
ExpansionHolds ==
    \A i \in 1..Len(calls) :
        calls[i].ok => Expand(BasisAfter(i), calls[i].coef) = calls[i].a

\* C12: under Strategy::Skip, when every append returns expansion
\* coefficients, the returned Q and R reconstruct the accepted input
\* vectors: column j of Q * R is the j-th accepted vector.
C12_Reconstruction ==
    (strategy = "Skip" /\ Returned /\ ExpansionHolds) =>
        /\ ret.r.cols = Len(Accepted)
        /\ \A j \in 1..Len(Accepted) : QRColumn(j) = Accepted[j].a

\* a Skip run that dropped a dependent vector and returned an R with a
\* nonzero entry above the diagonal
C12_Witness ==
    /\ strategy = "Skip"
    /\ Returned
    /\ ExpansionHolds
    /\ \E i \in 1..Len(calls) : ~calls[i].ok
    /\ ret.r.cols = 2
    /\ ret.r.e[<<1, 2>>] > 0
    /\ ret.r.e[<<2, 2>>] > 0

\* =================================================================
\* Properties of TruncatedEigIterator (checked under SpecEig)
\* =================================================================
\* next() has been called, and res and item are those of the last call
Called == epc = "iter" /\ onceCalls > 0

\* a real residual norm above 0.1 / a batch all of whose norms are at most 0.1
Above(x) == x # NaN /\ x > Threshold
AllWithin(norms) ==
    \A i \in 1..Len(norms) : norms[i] # NaN /\ norms[i] <= Threshold

Cols == Len(constraints.cols)

\* C6: next() returns no item when the eigen-step returns NoResult, or Ok or
\* Err with a residual norm strictly above 0.1; it yields exactly the
\* eigenvalues and eigenvectors of an Ok result all of whose residual norms
\* are at most 0.1.
C6_NextOutcome ==
    Called =>
        /\ res.tag = "NoResult" => item = NoItem
        /\ (res.tag \in {"Ok", "Err"}
                /\ \E i \in 1..Len(res.norms) : Above(res.norms[i]))
            => item = NoItem
        /\ (res.tag = "Ok" /\ AllWithin(res.norms))
            => item = SomeItem(res.vals, res.vecs)

\* an Ok batch with a residual norm of exactly 0.1 was yielded
C6_Witness ==
    /\ Called
    /\ res.tag = "Ok"
    /\ res.norms = <<Threshold>>
    /\ item.some

\* C7: once next() has returned no item, every later next() returns no item.
C7_OneShot ==
    [][(Called /\ ~item.some) => ~item'.some]_vars

\* C8: the constraint subspace never loses columns, every yielding next()
\* adds exactly step_size columns, and an iterator that started without
\* constraints holds yielded * step_size columns.
C8_DeflationMonotone ==
    /\ [][epc = "iter" =>
            /\ Len(constraints'.cols) >= Cols
            /\ item'.some => Len(constraints'.cols) = Cols + step_size
            /\ ~item'.some => Len(constraints'.cols) = Cols]_vars
    /\ [](epc = "iter" =>
            /\ Cols = Len(given.cols) + yielded * step_size
            /\ ~given.some => Cols = yielded * step_size)

\* two batches yielded on top of caller-supplied constraints
C8_Witness ==
    /\ Called
    /\ given.some
    /\ yielded = 2
    /\ item.some
    /\ Cols = 3

History ==
    IF given.some \/ found # <<>> THEN Some(given.cols \o found) ELSE None

\* the TruncatedEig fields an iterator holds
Config == <<problem, order, constraints, precision, maxiter>>

\* C13: for dimension d and batch size b the iterator yields at most
\* floor(d / b) items, the constraints never have more than d columns, and
\* repeated calls to next() eventually return no item.
C13_FiniteSequence ==
    /\ [](epc = "iter" =>
            /\ yielded <= problem \div step_size
            /\ Cols <= problem)
    /\ <>(Called /\ ~item.some)

C13_Witness ==
    /\ Called
    /\ ~item.some
    /\ res.tag = "NoResult"
    /\ problem >= 2
    /\ yielded = problem
    /\ Cols = problem

\* C14: a next() that yields stores the previous constraint columns followed
\* by the yielded block (the block alone without constraints), so the
\* constraints stored, and handed to the eigen-step at every next(), are the
\* caller-supplied constraints followed by all yielded blocks in yield order.
C14_ConstraintsAreHistory ==
    /\ [](epc = "iter" => constraints = History)
    /\ [][(epc = "iter" /\ item'.some) =>
            constraints' =
                Some(IF constraints.some THEN constraints.cols \o item'.vecs
                     ELSE item'.vecs)]_vars
    /\ [][epc = "iter" => args'.cons = History]_vars

C14_Witness ==
    /\ Called
    /\ item.some
    /\ given.some
    /\ yielded = 2
    /\ found[1] # found[2]
    /\ given.cols[1] # found[1]
    /\ args.cons = Some(given.cols \o <<found[1]>>)

\* C15: a next() that returns no item leaves the constraints, batch size,
\* operator, order, precision and iteration cap as they were.
C15_NoItemNoChange ==
    [][(epc = "iter" /\ ~item'.some) => UNCHANGED <<Config, step_size>>]_vars

C15_Witness ==
    /\ Called
    /\ ~item.some
    /\ res.tag = "Err"
    /\ res.vecs # <<>>
    /\ Aborts(res.norms)
    /\ constraints = History
    /\ yielded = 1

\* C16: every next() runs the eigen-step exactly once, with the batch size
\* fixed by into_iter and the stored constraints, precision and iteration cap.
C16_OneStepPerNext ==
    [][epc = "iter" =>
        /\ onceCalls' = 1
        /\ step_size' = step_size
        /\ args' = [n |-> problem, num |-> step_size, cons |-> constraints,
                    prec |-> precision, iters |-> maxiter, ord |-> order]]_vars

C16_Witness ==
    /\ Called
    /\ onceCalls = 1
    /\ yielded = 2
    /\ args.cons.some
    /\ Len(args.cons.cols) = 2
    /\ args.prec # DefaultPrecision
    /\ args.iters # 2 * problem

\* C17: new sets precision 1e-5, iteration cap twice the row count and no
\* constraints; each builder replaces only its own field; into_iter gives
\* batch size 1 and the configuration unchanged.
C17_Configuration ==
    /\ [](last.op = "new" =>
            /\ precision = DefaultPrecision
            /\ maxiter = 2 * problem
            /\ constraints = None)
    /\ [][(epc = "config" /\ last'.op = "precision") =>
            /\ precision' = last'.arg
            /\ UNCHANGED <<problem, order, constraints, maxiter>>]_vars
    /\ [][(epc = "config" /\ last'.op = "maxiter") =>
            /\ maxiter' = last'.arg
            /\ UNCHANGED <<problem, order, constraints, precision>>]_vars
    /\ [][(epc = "config" /\ last'.op = "constraints") =>
            /\ constraints' = Some(last'.arg)
            /\ UNCHANGED <<problem, order, precision, maxiter>>]_vars
    /\ [][(epc = "config" /\ last'.op = "into_iter") =>
            /\ step_size' = 1
            /\ UNCHANGED Config]_vars

C17_Witness ==
    /\ epc = "iter"
    /\ step_size = 1
    /\ onceCalls = 0
    /\ problem >= 2
    /\ precision # DefaultPrecision
    /\ maxiter = 2 * problem
    /\ constraints.some

====
